---- MODULE Spec2Model ----
(***************************************************************************)
(* The chat page of the portal (SessionPage): the submission queue, its    *)
(* drain loop and the optimistic message records it keeps in the message   *)
(* cache; the filter of the message list; the file mention of the input   *)
(* (parser, search, keyboard); the prompt buttons of the sidebar and the   *)
(* prompt route of the proxy.                                              *)
(*                                                                         *)
(* React state is modelled as it behaves: a state setter called from an    *)
(* async continuation only enqueues an update; the update is applied, in   *)
(* order, by the next render.  A discrete event (submit, navigation,       *)
(* model choice) renders synchronously before the event ends and runs the  *)
(* effects of that render.  Refs and the message cache change at once.     *)
(***************************************************************************)
EXTENDS Integers, Sequences, FiniteSets, TLC

\* ---- bounds ----
MaxSubmits == 3
MaxNavigations == 1
MaxLoops == 2

\* ---- domains ----
Sessions == {"s1", "s2"}
NoSession == "undefined"
Space == {" ", "\n", "\t"}
Inputs == {<<>>, <<" ">>, <<" ", "a", "\n">>}
NoError == "null"
Null == -1
QueuePage == "SessionPage"
\* no keydown event in the step
NoKey == [key |-> "none", handled |-> FALSE, submits |-> FALSE]
\* no prompt request of the toolbar in flight
NoRequest == [sessionId |-> NoSession, text |-> <<>>]
NoMsg == [id |-> <<"none", 0>>, text |-> <<>>, n |-> 0]
Outcomes == {"ok", "not_ok", "rejected"}

VARIABLES
  sessionId,          \* router.query.id of the last render
  input,              \* useState("") of the textarea
  sendError,          \* useState<string | null>(null)
  sending,            \* useState(false)
  messageQueue,       \* useState<QueuedMessage[]>([])
  updates,            \* state updates enqueued and not yet rendered
  isProcessingQueue,  \* useRef(false)
  loops,              \* the running processQueue calls: position and closure
  cache,              \* message cache per session (use-session-messages)
  refetch,            \* sessions whose message list revalidation is pending
  server,             \* per session, the prompts the upstream has accepted
  inflight,           \* prompt requests issued and not yet settled
  clock,              \* Date.now()
  navigations,        \* how many times the router changed the session
  submitted,          \* history: accepted submits, in order
  dispatched,         \* history: prompt requests, in order of issue
  isNearBottomRef,    \* useRef(true): the list follows new content
  page,               \* which session page renders the message list
  messages,           \* the message list handed to the render
  shown,              \* the messages the render keeps, in order
  cursor,             \* selectionStart of the textarea
  isOpen,             \* useFileMention: useState(false)
  searchQuery,        \* useFileMention: useState("")
  selectedIndex,      \* useFileMention: useState(0)
  mentionStart,       \* useFileMention: useState<number | null>(null)
  files,              \* FileMentionPopover: useState<FileResult[]>([]), paths
  called,             \* history: the handler of useFileMention called last
  timers,             \* queries whose debounce timer is pending
  requests,           \* queries whose search request is in flight
  filesQuery,         \* history: the query the list in files was returned for
  lastKey,            \* history: the key event of the last step, if it was one
  toolbarRequest,     \* AppSidebarNav: the prompt request of sendPrompt in flight
  toolbarPrompts      \* how many prompts the toolbar has sent

filterVars == <<page, messages, shown>>
mentionVars == <<cursor, isOpen, searchQuery, selectedIndex, mentionStart,
                 files, called, timers, requests, filesQuery, lastKey>>
toolbarVars == <<toolbarRequest, toolbarPrompts>>
otherVars == <<filterVars, mentionVars, toolbarVars>>

vars == <<sessionId, input, sendError, sending, messageQueue,
          updates, isProcessingQueue, loops, cache, refetch, server,
          inflight, clock, submitted, dispatched, isNearBottomRef,
          filterVars, mentionVars, toolbarRequest>>

\* useSelectedModel(): the model chosen in the model picker
selectedModel == "m1"

LoopIds == 1..MaxLoops
IdleLoop == [pc |-> "idle", nextMessage |-> NoMsg,
             sessionId |-> NoSession, model |-> selectedModel]

\* ---- String.prototype.trim on a sequence of characters ----
RECURSIVE TrimStart(_)
TrimStart(s) ==
  IF s = <<>> THEN <<>>
  ELSE IF Head(s) \in Space THEN TrimStart(Tail(s)) ELSE s

RECURSIVE TrimEnd(_)
TrimEnd(s) ==
  IF s = <<>> THEN <<>>
  ELSE IF s[Len(s)] \in Space THEN TrimEnd(SubSeq(s, 1, Len(s) - 1)) ELSE s

Trim(s) == TrimEnd(TrimStart(s))

\* ---- the message cache (hooks/use-session-messages) ----
\* The record handleSubmit builds; n is history only (the submit's ordinal).
optimisticMessage(messageId, messageText, queued, n) ==
  [id |-> messageId, role |-> "user",
   parts |-> <<[type |-> "text", text |-> messageText]>>,
   isQueued |-> queued, n |-> n]

addOptimisticMessage(c, sid, record) ==
  [c EXCEPT ![sid] = Append(@, record)]

updateOptimisticMessage(c, sid, id, queued) ==
  [c EXCEPT ![sid] =
     [i \in DOMAIN @ |-> IF @[i].id = id
                         THEN [@[i] EXCEPT !.isQueued = queued]
                         ELSE @[i]]]

RECURSIVE WithoutId(_, _)
WithoutId(list, id) ==
  IF list = <<>> THEN <<>>
  ELSE IF Head(list).id = id THEN WithoutId(Tail(list), id)
       ELSE <<Head(list)>> \o WithoutId(Tail(list), id)

removeOptimisticMessage(c, sid, id) ==
  [c EXCEPT ![sid] = WithoutId(@, id)]

\* JSON.stringify({ text: messageText, model: selectedModel })
requestBody(text, mdl) == [text |-> text, model |-> mdl]

\* The route POST /sessions/:id/prompt of the proxy: the call of
\* opencodeClient.session.prompt that it makes for a request.
promptRoute(id, body) ==
  [path |-> [id |-> id],
   body |-> [parts |-> <<[type |-> "text", text |-> body.text]>>]]

\* The upstream takes the prompt of the call into the session of its path.
sessionPrompt(srv, call) == [srv EXCEPT ![call.path.id] = Append(@, call)]

\* The authoritative list of a session: what the upstream has accepted.
ServerMessages(sid) ==
  [i \in 1..Len(server[sid]) |->
     [id |-> <<"msg", i>>, role |-> "user",
      parts |-> server[sid][i].body.parts,
      isQueued |-> FALSE, n |-> 0]]

\* ---- state updates ----
SetSending(b) == [kind |-> "setSending", value |-> b]
SetSendError(e) == [kind |-> "setSendError", value |-> e]
Enqueue(m) == [kind |-> "enqueue", value |-> m]
PopHead(k) == [kind |-> "pop", value |-> k]

enqueueUpdaterPrepends(prev, m) == <<m>> \o prev

\* setMessageQueue((prev) => [...prev, {id, text}])
enqueueUpdater(prev, m) == Append(prev, m)

\* The pop hands the head to the loop and leaves it in the queue.
ApplyUpdateKeepsHead(u, st) ==
  CASE u.kind = "setSending" -> [st EXCEPT !.sending = u.value]
    [] u.kind = "setSendError" -> [st EXCEPT !.sendError = u.value]
    [] u.kind = "enqueue" ->
         [st EXCEPT !.queue = enqueueUpdater(@, u.value), !.changed = TRUE]
    [] u.kind = "pop" ->
         IF Len(st.queue) = 0 THEN st
         ELSE [st EXCEPT !.loops[u.value].nextMessage = Head(st.queue),
                         !.changed = TRUE]

\* One update applied to the state being rendered.  The updater of a pop
\* assigns the loop's nextMessage as a side effect.
ApplyUpdate(u, st) ==
  CASE u.kind = "setSending" -> [st EXCEPT !.sending = u.value]
    [] u.kind = "setSendError" -> [st EXCEPT !.sendError = u.value]
    [] u.kind = "enqueue" ->
         [st EXCEPT !.queue = enqueueUpdater(@, u.value), !.changed = TRUE]
    [] u.kind = "pop" ->
         IF Len(st.queue) = 0 THEN st
         ELSE [st EXCEPT !.loops[u.value].nextMessage = Head(st.queue),
                         !.queue = Tail(st.queue),
                         !.changed = TRUE]

RECURSIVE Reduce(_, _)
Reduce(us, st) ==
  IF us = <<>> THEN st ELSE Reduce(Tail(us), ApplyUpdate(Head(us), st))

\* ---- processQueue ----
\* if (isProcessingQueue.current || !sessionId) return;
processQueueReturnsEarly(ref, sid) == ref \/ sid = NoSession

drainingFlagNeverSet == FALSE

\* isProcessingQueue.current = true
drainingFlag == TRUE

drainedFlagLeftSet == TRUE

\* isProcessingQueue.current = false
drainedFlag == FALSE

handleSubmitChecksRawInput(text, sid) == text = <<>> \/ sid = NoSession

\* if (!input.trim() || !sessionId) return;
handleSubmitReturnsEarly(text, sid) == Trim(text) = <<>> \/ sid = NoSession

shouldQueueIgnoresSending(isSending, queue) == Len(queue) > 0

\* const shouldQueue = sending || messageQueue.length > 0;
shouldQueue(isSending, queue) == isSending \/ Len(queue) > 0

scrollLeftAsItIs == isNearBottomRef

\* isNearBottomRef.current = true (after a successful send)
rearmedScroll == TRUE

messageTextUntrimmed(text) == text

\* const messageText = input.trim();
messageTextOf(text) == Trim(text)

FreeLoops(ls) == {k \in LoopIds : ls[k].pc = "idle"}
Min(S) == CHOOSE x \in S : \A y \in S : x <= y

\* A render of the component for session sid and model mdl that applies the
\* updates us, and the effect of lines 429-433 after it.  The effect runs
\* when messageQueue or processQueue is a new value; processQueue called
\* from it runs up to its first await.
RenderCommit(us, sid, mdl, newProcessQueue) ==
  LET st == Reduce(us, [queue |-> messageQueue, sending |-> sending,
                        sendError |-> sendError, loops |-> loops,
                        changed |-> FALSE])
      effectRuns == st.changed \/ newProcessQueue
      calls == effectRuns /\ Len(st.queue) > 0 /\ ~isProcessingQueue
      starts == /\ calls
                /\ ~processQueueReturnsEarly(isProcessingQueue, sid)
                /\ FreeLoops(st.loops) # {}
  IN /\ messageQueue' = st.queue
     /\ sending' = st.sending
     /\ sendError' = st.sendError
     /\ IF starts
        THEN LET k == Min(FreeLoops(st.loops))
             IN /\ isProcessingQueue' = drainingFlag
                /\ loops' = [st.loops EXCEPT ![k] =
                               [pc |-> "tick", nextMessage |-> NoMsg,
                                sessionId |-> sid, model |-> mdl]]
                /\ updates' = <<SetSending(TRUE), PopHead(k)>>
        ELSE /\ isProcessingQueue' = isProcessingQueue
             /\ loops' = st.loops
             /\ updates' = <<>>

\* ---- the program ----
Init ==
  /\ sessionId = NoSession
  /\ input = <<>>
  /\ sendError = NoError
  /\ sending = FALSE
  /\ messageQueue = <<>>
  /\ updates = <<>>
  /\ isProcessingQueue = FALSE
  /\ loops = [k \in LoopIds |-> IdleLoop]
  /\ cache = [s \in Sessions |-> <<>>]
  /\ refetch = {}
  /\ server = [s \in Sessions |-> <<>>]
  /\ inflight = {}
  /\ clock = 0
  /\ navigations = 0
  /\ submitted = <<>>
  /\ dispatched = <<>>
  /\ isNearBottomRef = TRUE
  /\ page = QueuePage
  /\ messages = <<>>
  /\ shown = <<>>
  /\ cursor = 0
  /\ isOpen = FALSE
  /\ searchQuery = <<>>
  /\ selectedIndex = 0
  /\ mentionStart = Null
  /\ files = <<>>
  /\ called = "none"
  /\ timers = {}
  /\ requests = {}
  /\ filesQuery = <<>>
  /\ lastKey = NoKey
  /\ toolbarRequest = NoRequest
  /\ toolbarPrompts = 0

\* Date.now() moves on.  Only whether two submits read the same value
\* matters, so a reading no id has used yet is not stepped over.
ClockTick ==
  /\ \E i \in DOMAIN submitted : submitted[i].id = <<"temp", clock>>
  /\ clock' = clock + 1
  /\ UNCHANGED <<navigations, sessionId, input, sendError, sending,
                 messageQueue, updates, isProcessingQueue, loops, cache,
                 refetch, server, inflight, submitted, dispatched>>
  /\ UNCHANGED <<isNearBottomRef, otherVars>>

\* The first render has no router.query.id; the router then reports the
\* session of the URL the page was opened on.
RouterReady ==
  /\ sessionId = NoSession
  /\ sessionId' = "s1"
  /\ RenderCommit(updates, "s1", selectedModel, TRUE)
  /\ UNCHANGED <<input, cache, refetch, server, inflight,
                 clock, navigations, submitted, dispatched>>
  /\ isNearBottomRef' = TRUE
  /\ UNCHANGED otherVars

\* The router shows another session; the page component stays mounted.
Navigate(s) ==
  /\ navigations < MaxNavigations
  /\ sessionId # NoSession
  /\ s # sessionId
  /\ sessionId' = s
  /\ navigations' = navigations + 1
  /\ RenderCommit(updates, s, selectedModel, TRUE)
  /\ UNCHANGED <<input, cache, refetch, server, inflight,
                 clock, submitted, dispatched>>
  /\ isNearBottomRef' = TRUE
  /\ UNCHANGED otherVars

\* onChange of the textarea: setInput(value)
SetInput(v) ==
  /\ v # input
  /\ input' = v
  /\ UNCHANGED <<sessionId, sendError, sending, messageQueue,
                 updates, isProcessingQueue, loops, cache, refetch, server,
                 inflight, clock, navigations, submitted, dispatched>>
  /\ UNCHANGED <<isNearBottomRef, otherVars>>

handleSubmit ==
  /\ Len(submitted) < MaxSubmits
  /\ ~handleSubmitReturnsEarly(input, sessionId)
  /\ LET messageText == messageTextOf(input)
         messageId == <<"temp", clock>>
         n == Len(submitted) + 1
         record == optimisticMessage(messageId, messageText,
                                     shouldQueue(sending, messageQueue), n)
     IN /\ input' = <<>>
        /\ cache' = addOptimisticMessage(cache, sessionId, record)
        /\ submitted' = Append(submitted,
                               [id |-> messageId, text |-> messageText,
                                sessionId |-> sessionId])
        /\ RenderCommit(updates \o <<SetSendError(NoError),
                                     Enqueue([id |-> messageId,
                                              text |-> messageText,
                                              n |-> n])>>,
                        sessionId, selectedModel, FALSE)
  /\ UNCHANGED <<sessionId, refetch, server, inflight, clock, navigations,
                 dispatched>>
  /\ isNearBottomRef' = TRUE
  /\ UNCHANGED otherVars

\* React renders the updates enqueued by the drain loop.
Render ==
  /\ updates # <<>>
  /\ RenderCommit(updates, sessionId, selectedModel, FALSE)
  /\ UNCHANGED <<sessionId, input, cache, refetch, server,
                 inflight, clock, navigations, submitted, dispatched>>
  /\ UNCHANGED <<isNearBottomRef, otherVars>>

ErrorMessage(outcome) ==
  IF outcome = "rejected" THEN "Failed to fetch" ELSE "Failed to send message"

\* The loop of processQueue after its tick (lines 416-421): it ends, or it
\* clears the queued mark and sendMessage issues the request.  The tick of
\* line 414 is there for React to apply the updates first.
processQueueStep(k) ==
  /\ loops[k].pc = "tick"
  /\ updates = <<>>
  /\ IF loops[k].nextMessage = NoMsg
     THEN /\ isProcessingQueue' = drainedFlag
          /\ updates' = <<SetSending(FALSE)>>
          /\ loops' = [loops EXCEPT ![k] = IdleLoop]
          /\ UNCHANGED <<cache, inflight, dispatched>>
     ELSE LET m == loops[k].nextMessage
              sid == loops[k].sessionId
          IN /\ cache' = updateOptimisticMessage(cache, sid, m.id, FALSE)
             /\ inflight' = inflight \cup {[n |-> m.n, loop |-> k]}
             /\ dispatched' = Append(dispatched,
                                     [n |-> m.n, id |-> m.id, text |-> m.text,
                                      sessionId |-> sid,
                                      model |-> loops[k].model])
             /\ loops' = [loops EXCEPT ![k].pc = "await"]
             /\ UNCHANGED <<isProcessingQueue, updates>>
  /\ UNCHANGED <<sessionId, input, sendError, sending,
                 messageQueue, refetch, server, clock, navigations, submitted>>
  /\ UNCHANGED <<isNearBottomRef, otherVars>>

\* sendMessage with a catch that rethrows: the failure is handled, then
\* rejects processQueue, which stops where it is.
sendMessageRethrows(k, outcome) ==
  /\ loops[k].pc = "await"
  /\ LET m == loops[k].nextMessage
         sid == loops[k].sessionId
     IN /\ inflight' = inflight \ {[n |-> m.n, loop |-> k]}
        /\ IF outcome = "ok"
           THEN /\ server' = sessionPrompt(server,
                            promptRoute(sid, requestBody(m.text, loops[k].model)))
                /\ refetch' = refetch \cup {sid}
                /\ updates' = Append(updates, PopHead(k))
                /\ cache' = cache
                /\ loops' = [loops EXCEPT ![k].pc = "tick",
                                          ![k].nextMessage = NoMsg]
           ELSE /\ updates' = Append(updates,
                                     SetSendError(ErrorMessage(outcome)))
                /\ cache' = removeOptimisticMessage(cache, sid, m.id)
                /\ loops' = [loops EXCEPT ![k] = IdleLoop]
                /\ UNCHANGED <<server, refetch>>
  /\ UNCHANGED <<sessionId, input, sendError, sending, messageQueue,
                 isProcessingQueue, clock, navigations, submitted,
                 dispatched>>
  /\ isNearBottomRef' = (IF outcome = "ok" THEN rearmedScroll
                                           ELSE isNearBottomRef)
  /\ UNCHANGED otherVars

\* The prompt request settles (lines 372-389) and the loop goes round to
\* its next pop (lines 403-411).
sendMessageSettles(k, outcome) ==
  /\ loops[k].pc = "await"
  /\ LET m == loops[k].nextMessage
         sid == loops[k].sessionId
     IN /\ inflight' = inflight \ {[n |-> m.n, loop |-> k]}
        /\ IF outcome = "ok"
           THEN /\ server' = sessionPrompt(server,
                            promptRoute(sid, requestBody(m.text, loops[k].model)))
                /\ refetch' = refetch \cup {sid}
                /\ updates' = Append(updates, PopHead(k))
                /\ cache' = cache
           ELSE /\ updates' = updates \o <<SetSendError(ErrorMessage(outcome)),
                                           PopHead(k)>>
                /\ cache' = removeOptimisticMessage(cache, sid, m.id)
                /\ UNCHANGED <<server, refetch>>
  /\ loops' = [loops EXCEPT ![k].pc = "tick", ![k].nextMessage = NoMsg]
  /\ UNCHANGED <<sessionId, input, sendError, sending,
                 messageQueue, isProcessingQueue, clock, navigations, submitted,
                 dispatched>>
  /\ isNearBottomRef' = (IF outcome = "ok" THEN rearmedScroll
                                           ELSE isNearBottomRef)
  /\ UNCHANGED otherVars

\* The revalidation asked for by mutateSessionMessages lands.
reconcile(s) ==
  /\ s \in refetch
  /\ cache' = [cache EXCEPT ![s] = ServerMessages(s)]
  /\ refetch' = refetch \ {s}
  /\ UNCHANGED <<sessionId, input, sendError, sending,
                 messageQueue, updates, isProcessingQueue, loops, server,
                 inflight, clock, navigations, submitted, dispatched>>
  /\ UNCHANGED <<isNearBottomRef, otherVars>>

Next ==
  \/ ClockTick
  \/ RouterReady
  \/ \E s \in Sessions : Navigate(s)
  \/ \E v \in Inputs : SetInput(v)
  \/ handleSubmit
  \/ Render
  \/ \E k \in LoopIds : processQueueStep(k)
  \/ \E k \in LoopIds, o \in Outcomes : sendMessageSettles(k, o)
  \/ \E s \in Sessions : reconcile(s)

Spec == Init /\ [][Next]_vars

\* ---- the toolbar of the sidebar: Create PR, Pull, Push ----
MaxToolbarPrompts == 1

\* CREATE_PR_PROMPT, PULL_CHANGES_PROMPT, PUSH_CHANGES_PROMPT
ToolbarPrompts == {<<"CREATE_PR_PROMPT">>, <<"PULL_CHANGES_PROMPT">>,
                   <<"PUSH_CHANGES_PROMPT">>}

\* handleCreatePR, handlePull, handlePush: the button is disabled while one
\* of the three runs and while no session is open; sendPrompt issues the
\* request for the session of the router.
sendPrompt(prompt) ==
  /\ toolbarPrompts < MaxToolbarPrompts
  /\ toolbarRequest = NoRequest
  /\ sessionId # NoSession
  /\ toolbarRequest' = [sessionId |-> sessionId, text |-> prompt]
  /\ toolbarPrompts' = toolbarPrompts + 1
  /\ UNCHANGED <<sessionId, input, sendError, sending, messageQueue, updates,
                 isProcessingQueue, loops, cache, refetch, server, inflight,
                 clock, navigations, submitted, dispatched, isNearBottomRef,
                 filterVars, mentionVars>>

\* The request of sendPrompt settles: after an ok response the message list
\* of the session is revalidated; otherwise the handler alerts.
sendPromptSettles(outcome) ==
  /\ toolbarRequest # NoRequest
  /\ toolbarRequest' = NoRequest
  /\ IF outcome = "ok"
     THEN /\ server' = sessionPrompt(server,
                 promptRoute(toolbarRequest.sessionId,
                             requestBody(toolbarRequest.text, selectedModel)))
          /\ refetch' = refetch \cup {toolbarRequest.sessionId}
     ELSE UNCHANGED <<server, refetch>>
  /\ UNCHANGED <<sessionId, input, sendError, sending, messageQueue, updates,
                 isProcessingQueue, loops, cache, inflight, clock,
                 navigations, submitted, dispatched, isNearBottomRef,
                 toolbarPrompts, filterVars, mentionVars>>

ToolbarNext ==
  \/ Next
  \/ \E prompt \in ToolbarPrompts : sendPrompt(prompt)
  \/ \E o \in Outcomes : sendPromptSettles(o)

ToolbarSpec == Init /\ [][ToolbarNext]_vars

\* What the scheduling guarantees: React renders what is enqueued, timers
\* fire, and every request settles.  Nothing obliges the user to act.
FairSpec ==
  /\ Spec
  /\ WF_vars(Render)
  /\ \A k \in LoopIds : WF_vars(processQueueStep(k))
  /\ \A k \in LoopIds : WF_vars(\E o \in Outcomes : sendMessageSettles(k, o))
  /\ \A s \in Sessions : WF_vars(reconcile(s))

\* The user scrolls the chat container: checkIfNearBottom records whether
\* the view is within the threshold of the end.  Only a list with content can
\* be scrolled away from its end.
handleScroll(isNear) ==
  /\ isNear # isNearBottomRef
  /\ isNear \/ (sessionId # NoSession /\ cache[sessionId] # <<>>)
  /\ isNearBottomRef' = isNear
  /\ UNCHANGED <<sessionId, input, sendError, sending, messageQueue, updates,
                 isProcessingQueue, loops, cache, refetch, server, inflight,
                 clock, navigations, submitted, dispatched, otherVars>>

\* The page with the user scrolling the list as well.
ScrollNext ==
  \/ Next
  \/ \E b \in BOOLEAN : handleScroll(b)

ScrollSpec == Init /\ [][ScrollNext]_vars

\* ---- the visibility filter of the message list ----
MaxMessages == 3

\* pages/session/[id].tsx, the session page that sends without a queue
IdPage == "pages/session/[id].tsx"
Pages == {QueuePage, IdPage}

queueVars == <<sessionId, input, sendError, sending, messageQueue, updates,
               isProcessingQueue, loops, cache, refetch, server, inflight,
               clock, navigations, submitted, dispatched, isNearBottomRef,
               toolbarVars>>

queueVarsButInput ==
  <<sessionId, sendError, sending, messageQueue, updates, isProcessingQueue,
    loops, cache, refetch, server, inflight, clock, navigations, submitted,
    dispatched, isNearBottomRef, toolbarVars>>

\* The fragments a message can carry; hasText says whether the fragment has
\* a text property at all.
NoText(type) == [type |-> type, hasText |-> FALSE, text |-> <<>>]
TextParts ==
  {[type |-> "text", hasText |-> TRUE, text |-> x] : x \in {<<" ">>, <<"a">>}}
    \cup {NoText("text")}
PartsOf(pg) ==
  IF pg = QueuePage
  THEN TextParts \cup {NoText(y) : y \in {"tool", "step-start"}}
  ELSE TextParts \cup {NoText(y) :
                         y \in {"tool-invocation", "tool-result", "step-start"}}
\* The part lists tried: none, one fragment, a text fragment and one more.
PartLists(pg) ==
  {<<>>} \cup {<<x>> : x \in PartsOf(pg)}
         \cup {<<x, y>> : x \in TextParts, y \in PartsOf(pg)}

\* part.type === "text" && "text" in part && !!part.text?.trim()
isTextWithContent(part) ==
  part.type = "text" /\ part.hasText /\ Trim(part.text) # <<>>

\* parts.filter(...).map((part) => part.text).join("\n\n")
RECURSIVE getMessageContent(_)
getMessageContent(parts) ==
  IF parts = <<>> THEN <<>>
  ELSE LET rest == getMessageContent(Tail(parts))
       IN IF ~isTextWithContent(Head(parts)) THEN rest
          ELSE IF \E i \in DOMAIN Tail(parts) : isTextWithContent(Tail(parts)[i])
               THEN Head(parts).text \o <<"\n", "\n">> \o rest
               ELSE Head(parts).text

isToolPart(part) == part.type = "tool"

hasVisibleContentTextOnly(message) ==
  getMessageContent(message.parts) # <<>>

\* part_000: return !!(textContent || hasToolCalls);
hasVisibleContent(message) ==
  LET textContent == getMessageContent(message.parts)
      hasToolCalls == \E i \in DOMAIN message.parts : isToolPart(message.parts[i])
  IN textContent # <<>> \/ hasToolCalls

\* pages/session/[id].tsx:
\* return !!(textContent || hasToolInvocations || hasToolResults);
hasVisibleContentOfIdPage(message) ==
  LET textContent == getMessageContent(message.parts)
      hasToolInvocations ==
        \E i \in DOMAIN message.parts : message.parts[i].type = "tool-invocation"
      hasToolResults ==
        \E i \in DOMAIN message.parts : message.parts[i].type = "tool-result"
  IN textContent # <<>> \/ hasToolInvocations \/ hasToolResults

keeps(message, pg) ==
  IF pg = QueuePage THEN hasVisibleContent(message)
  ELSE hasVisibleContentOfIdPage(message)

RECURSIVE renderedMessagesNewestFirst(_, _)
renderedMessagesNewestFirst(list, pg) ==
  IF list = <<>> THEN <<>>
  ELSE IF keeps(Head(list), pg)
       THEN renderedMessagesNewestFirst(Tail(list), pg) \o <<Head(list)>>
       ELSE renderedMessagesNewestFirst(Tail(list), pg)

\* messages.filter((message) => hasVisibleContent(message))
RECURSIVE renderedMessages(_, _)
renderedMessages(list, pg) ==
  IF list = <<>> THEN <<>>
  ELSE IF keeps(Head(list), pg)
       THEN <<Head(list)>> \o renderedMessages(Tail(list), pg)
       ELSE renderedMessages(Tail(list), pg)

\* The other session page is opened: it mounts with no messages.
OpenPage(pg) ==
  /\ pg # page
  /\ page' = pg
  /\ messages' = <<>>
  /\ shown' = <<>>
  /\ UNCHANGED <<queueVars, mentionVars>>

\* The message list gets one more message and the page renders it.
ReceiveMessage(parts) ==
  /\ Len(messages) < MaxMessages
  /\ messages' = Append(messages, [info |-> [id |-> Len(messages) + 1],
                                   parts |-> parts])
  /\ shown' = renderedMessages(messages', page)
  /\ UNCHANGED <<page, queueVars, mentionVars>>

FilterNext ==
  \/ \E pg \in Pages : OpenPage(pg)
  \/ \E parts \in PartLists(page) : ReceiveMessage(parts)

FilterSpec == Init /\ [][FilterNext]_vars

\* ---- the file mention of the textarea (useFileMention) ----
MaxLen == 4

Chars == {"@", " ", "\n", "\t", "a"}
Paths == {<<"f">>, <<"d", "f">>, <<"@", "f">>}
FileLists == {<<>>, <<<<"f">>>>, <<<<"@", "f">>>>, <<<<"f">>, <<"d", "f">>>>}

\* String.prototype.slice(from, to) with offsets from 0, clamped
Slice(s, from, to) ==
  LET a == IF from > Len(s) THEN Len(s) ELSE from
      b == IF to > Len(s) THEN Len(s) ELSE to
  IN IF b <= a THEN <<>> ELSE SubSeq(s, a + 1, b)

\* String.prototype.lastIndexOf(ch): the offset from 0, or -1
RECURSIVE lastIndexOf(_, _)
lastIndexOf(s, ch) ==
  IF s = <<>> THEN -1
  ELSE IF s[Len(s)] = ch THEN Len(s) - 1
       ELSE lastIndexOf(SubSeq(s, 1, Len(s) - 1), ch)

\* String.prototype.includes(ch)
includes(s, ch) == \E i \in DOMAIN s : s[i] = ch

\* close()
closed ==
  [isOpen |-> FALSE, searchQuery |-> <<>>, mentionStart |-> Null,
   selectedIndex |-> 0]

handleInputChangeAfterAnyChar(value, cursorPosition) ==
  LET textBeforeCursor == Slice(value, 0, cursorPosition)
      atIndex == lastIndexOf(textBeforeCursor, "@")
      textAfterAt == Slice(textBeforeCursor, atIndex + 1, Len(textBeforeCursor))
  IN IF atIndex # -1 /\ ~includes(textAfterAt, " ") /\ ~includes(textAfterAt, "\n")
     THEN [isOpen |-> TRUE, searchQuery |-> textAfterAt,
           mentionStart |-> atIndex, selectedIndex |-> 0]
     ELSE closed

\* handleInputChange(value, cursorPosition): the mention state it sets
handleInputChange(value, cursorPosition) ==
  LET textBeforeCursor == Slice(value, 0, cursorPosition)
      atIndex == lastIndexOf(textBeforeCursor, "@")
      textAfterAt == Slice(textBeforeCursor, atIndex + 1, Len(textBeforeCursor))
      charBeforeAt == IF atIndex > 0 THEN textBeforeCursor[atIndex] ELSE " "
  IN IF /\ atIndex # -1
        /\ (charBeforeAt = " " \/ charBeforeAt = "\n" \/ atIndex = 0)
        /\ ~includes(textAfterAt, " ")
        /\ ~includes(textAfterAt, "\n")
     THEN [isOpen |-> TRUE, searchQuery |-> textAfterAt,
           mentionStart |-> atIndex, selectedIndex |-> 0]
     ELSE closed

handleSelectWithoutSpace(filePath, currentValue, mStart, query) ==
  IF mStart = Null THEN currentValue
  ELSE Slice(currentValue, 0, mStart) \o <<"@">> \o filePath
         \o Slice(currentValue, mStart + 1 + Len(query), Len(currentValue))

handleSelectKeepsQuery(filePath, currentValue, mStart, query) ==
  IF mStart = Null THEN currentValue
  ELSE Slice(currentValue, 0, mStart) \o <<"@">> \o filePath \o <<" ">>
         \o Slice(currentValue, mStart + 1, Len(currentValue))

\* handleSelect(filePath, currentValue): the value it returns, with the
\* mentionStart and searchQuery of the render it was made in
handleSelect(filePath, currentValue, mStart, query) ==
  IF mStart = Null THEN currentValue
  ELSE LET beforeMention == Slice(currentValue, 0, mStart)
           afterMention == Slice(currentValue, mStart + 1 + Len(query),
                                 Len(currentValue))
       IN beforeMention \o <<"@">> \o filePath \o <<" ">> \o afterMention

\* The effect of lines 165-170 of the popover: no candidates are kept while
\* the popover is closed or the query is empty.
filesAfter(st, fs) ==
  IF ~st.isOpen \/ st.searchQuery = <<>> THEN <<>> ELSE fs

\* controller.abort() in the cleanup of the search effect
abortedRequests(reqs) == {}

\* The mention state st is set and the popover's search effect (lines
\* 165-204) runs if isOpen or searchQuery changed: its cleanup clears the
\* timer and aborts the request, then it empties the list or starts a timer.
SetMention(st) ==
  /\ isOpen' = st.isOpen
  /\ searchQuery' = st.searchQuery
  /\ mentionStart' = st.mentionStart
  /\ selectedIndex' = st.selectedIndex
  /\ files' = filesAfter(st, files)
  /\ filesQuery' = IF filesAfter(st, files) = <<>> THEN <<>> ELSE filesQuery
  /\ IF st.isOpen # isOpen \/ st.searchQuery # searchQuery
     THEN /\ timers' = IF ~st.isOpen \/ st.searchQuery = <<>>
                       THEN {} ELSE {st.searchQuery}
          /\ requests' = abortedRequests(requests)
     ELSE UNCHANGED <<timers, requests>>

\* onChange / onInput of the textarea with the new value and selectionStart
onChange(value, cursorPos) ==
  /\ input' = value
  /\ cursor' = cursorPos
  /\ IF isOpen \/ includes(value, "@")
     THEN /\ SetMention(handleInputChange(value, cursorPos))
          /\ called' = "handleInputChange"
     ELSE UNCHANGED <<isOpen, searchQuery, mentionStart, selectedIndex,
                      files, called, timers, requests, filesQuery>>
  /\ lastKey' = NoKey
  /\ UNCHANGED <<queueVarsButInput, filterVars>>

\* The user types the character ch at the cursor.
TypeChar(ch) ==
  /\ Len(input) < MaxLen
  /\ onChange(Slice(input, 0, cursor) \o <<ch>> \o Slice(input, cursor, Len(input)),
              cursor + 1)

\* The user deletes the character before the cursor.
Backspace ==
  /\ cursor > 0
  /\ onChange(Slice(input, 0, cursor - 1) \o Slice(input, cursor, Len(input)),
              cursor - 1)

\* onSelect of the textarea: the cursor moved to offset cursorPos
onSelectCursor(cursorPos) ==
  /\ cursorPos # cursor
  /\ cursor' = cursorPos
  /\ IF isOpen \/ includes(input, "@")
     THEN /\ SetMention(handleInputChange(input, cursorPos))
          /\ called' = "handleInputChange"
     ELSE UNCHANGED <<isOpen, searchQuery, mentionStart, selectedIndex,
                      files, called, timers, requests, filesQuery>>
  /\ lastKey' = NoKey
  /\ UNCHANGED <<input, queueVarsButInput, filterVars>>

\* setTimeout(fetchFiles, 150) fires: the search for the query is sent.
DebounceFires ==
  /\ \E q \in timers :
       /\ timers' = timers \ {q}
       /\ requests' = requests \cup {q}
  /\ lastKey' = NoKey
  /\ UNCHANGED <<input, cursor, isOpen, searchQuery, selectedIndex,
                 mentionStart, files, called, filesQuery,
                 queueVarsButInput, filterVars>>

\* The search answers with a list of paths, which the popover shows.
ResultsArrive(list) ==
  /\ \E q \in requests :
       /\ requests' = requests \ {q}
       /\ filesQuery' = q
  /\ files' = list
  /\ lastKey' = NoKey
  /\ UNCHANGED <<input, cursor, isOpen, searchQuery, selectedIndex,
                 mentionStart, called, timers, queueVarsButInput, filterVars>>

\* The search answers with a status that is not ok, or the request fails:
\* nothing is applied.
SearchFails ==
  /\ \E q \in requests : requests' = requests \ {q}
  /\ lastKey' = NoKey
  /\ UNCHANGED <<input, cursor, isOpen, searchQuery, selectedIndex,
                 mentionStart, files, called, timers, filesQuery,
                 queueVarsButInput, filterVars>>

\* A click on the candidate filePath of the popover: onSelect of the page
\* sets the input to what handleSelect returns; handleSelect closes.  The
\* text grows with every selection, so only a text of the typed length
\* takes one.
onSelect(filePath) ==
  /\ Len(input) <= MaxLen
  /\ isOpen
  /\ \E i \in DOMAIN files : files[i] = filePath
  /\ input' = handleSelect(filePath, input, mentionStart, searchQuery)
  /\ cursor' = Len(input')
  /\ SetMention(closed)
  /\ called' = "handleSelect"
  /\ lastKey' = NoKey
  /\ UNCHANGED <<queueVarsButInput, filterVars>>

Keys == {"ArrowDown", "ArrowUp", "Escape", "Enter", "Tab", "a"}

\* Math.max of two numbers
MathMax(a, b) == IF a > b THEN a ELSE b

\* a step of one, without the wrap
arrowDownUnwrapped(prev, filesCount) == prev + 1

\* ArrowDown: setSelectedIndex((prev) => (prev + 1) % Math.max(filesCount, 1))
arrowDown(prev, filesCount) == (prev + 1) % MathMax(filesCount, 1)

\* ArrowUp: prev - 1 < 0 ? Math.max(filesCount - 1, 0) : prev - 1
arrowUp(prev, filesCount) ==
  IF prev - 1 < 0 THEN MathMax(filesCount - 1, 0) ELSE prev - 1

handleKeyDownNeverEarly == FALSE

\* if (!isOpen) return false;
handleKeyDownReturnsEarly == ~isOpen

\* handleKeyDown(e, filesCount) of useFileMention: the state it leaves and
\* what it returns
handleKeyDown(key, filesCount) ==
  LET now == [isOpen |-> isOpen, searchQuery |-> searchQuery,
              mentionStart |-> mentionStart, selectedIndex |-> selectedIndex]
  IN  IF handleKeyDownReturnsEarly THEN [state |-> now, handled |-> FALSE]
      ELSE IF key = "ArrowDown"
      THEN [state |-> [now EXCEPT !.selectedIndex = arrowDown(selectedIndex, filesCount)],
            handled |-> TRUE]
      ELSE IF key = "ArrowUp"
      THEN [state |-> [now EXCEPT !.selectedIndex = arrowUp(selectedIndex, filesCount)],
            handled |-> TRUE]
      ELSE IF key = "Escape"
      THEN [state |-> closed, handled |-> TRUE]
      ELSE [state |-> now,
            handled |-> key \in {"Tab", "Enter"} /\ filesCount > 0]

\* onKeyDown of the textarea, the key pressed without Shift: a handled Enter
\* or Tab commits fileResults[selectedIndex] if there is such a candidate;
\* a key that is not handled is left to the page, where Enter submits a
\* text that is not blank.  handleSubmit returns at once here, there being
\* no session; a key that is not handled and types a character arrives
\* as onChange.
onKeyDown(key) ==
  LET r == handleKeyDown(key, Len(files))
      commits == /\ r.handled
                 /\ key \in {"Enter", "Tab"}
                 /\ Len(files) > 0
                 /\ selectedIndex + 1 \in DOMAIN files
  IN  /\ sessionId = NoSession
      /\ commits => Len(input) <= MaxLen
      /\ IF commits
         THEN /\ input' = handleSelect(files[selectedIndex + 1], input,
                                       mentionStart, searchQuery)
              /\ cursor' = Len(input')
              /\ SetMention(closed)
              /\ called' = "handleSelect"
         ELSE /\ SetMention(r.state)
              /\ called' = "handleKeyDown"
              /\ UNCHANGED <<input, cursor>>
      /\ lastKey' = [key |-> key, handled |-> r.handled,
                     submits |-> ~r.handled /\ key = "Enter" /\ Trim(input) # <<>>]
      /\ UNCHANGED <<queueVarsButInput, filterVars>>

\* onMouseEnter of the candidate at index: onSelectedIndexChange(index)
onMouseEnter(index) ==
  /\ isOpen
  /\ index + 1 \in DOMAIN files
  /\ selectedIndex' = index
  /\ lastKey' = NoKey
  /\ UNCHANGED <<input, cursor, isOpen, searchQuery, mentionStart, files,
                 called, timers, requests, filesQuery,
                 queueVarsButInput, filterVars>>

\* A click outside the popover and the textarea: onClose
handleClickOutside ==
  /\ isOpen
  /\ SetMention(closed)
  /\ called' = "close"
  /\ lastKey' = NoKey
  /\ UNCHANGED <<input, cursor, queueVarsButInput, filterVars>>

\* What happens to the mention apart from typing a character
MentionEvent ==
  \/ Backspace
  \/ \E c \in 0..Len(input) : onSelectCursor(c)
  \/ DebounceFires
  \/ \E list \in FileLists : ResultsArrive(list)
  \/ SearchFails
  \/ \E path \in Paths : onSelect(path)
  \/ \E index \in 0..1 : onMouseEnter(index)
  \/ handleClickOutside

MentionNext ==
  \/ \E ch \in Chars : TypeChar(ch)
  \/ MentionEvent

MentionSpec == Init /\ [][MentionNext]_vars

\* The same with the keyboard: the keys that handleKeyDown looks at, on a
\* text of up to MaxKeyLen typed characters.
MaxKeyLen == 3

KeyNext ==
  \/ \E ch \in Chars : Len(input) < MaxKeyLen /\ TypeChar(ch)
  \/ MentionEvent
  \/ \E key \in Keys : onKeyDown(key)

KeySpec == Init /\ [][KeyNext]_vars

\* ---- helpers of the properties ----
InQueue(n) == \E i \in DOMAIN messageQueue : messageQueue[i].n = n
Dispatched(n) == \E i \in DOMAIN dispatched : dispatched[i].n = n
Running == {k \in LoopIds : loops[k].pc # "idle"}
PopPending == \E i \in DOMAIN updates : updates[i].kind = "pop"
Last(list) == list[Len(list)]
AcceptedSubmit == Len(submitted') = Len(submitted) + 1

\* C1: the prompt requests are issued in exactly the order of the accepted
\* submits: the i-th request carries the id and the text of the i-th submit.
C1_FifoDispatch ==
  \A i \in DOMAIN dispatched :
    /\ dispatched[i].n = i
    /\ dispatched[i].id = submitted[i].id
    /\ dispatched[i].text = submitted[i].text

\* Three messages were submitted; two requests have been issued and the
\* third message waits in the queue.
C1_Witness ==
  /\ Len(dispatched) = 2
  /\ Len(messageQueue) = 1

\* C2: at most one prompt request of the queue is unresolved, at most one
\* drain loop runs, and no loop is at its pop while a request is unresolved.
C2_SingleInFlight ==
  /\ Cardinality(inflight) <= 1
  /\ Cardinality(Running) <= 1
  /\ inflight # {} => (~PopPending /\ \A k \in LoopIds : loops[k].pc # "tick")
  /\ Running # {} => isProcessingQueue

\* A request is unresolved, another message waits in the queue, and the page
\* has since rendered for another session (a new processQueue identity).
C2_Witness ==
  /\ inflight # {}
  /\ messageQueue # <<>>
  /\ \E k \in Running : loops[k].sessionId # sessionId

\* C3: right after an accepted submit of text t the message list of the
\* session ends with a user record whose parts are one text fragment equal to
\* trim(t) and whose id is that of the QueuedMessage the submit appended.
C3_OptimisticRecord ==
  [][AcceptedSubmit =>
       LET list == cache'[sessionId]
           q == messageQueue'
       IN /\ Len(list) = Len(cache[sessionId]) + 1
          /\ Last(list).role = "user"
          /\ Last(list).parts = <<[type |-> "text", text |-> Trim(input)]>>
          /\ Len(q) > 0
          /\ Last(q).n = Len(submitted')
          /\ Last(q).text = Trim(input)
          /\ Last(list).id = Last(q).id]_vars

\* A submit of a text with surrounding white space has put its record last in
\* the list and its message last in the queue, and no request has been issued.
C3_Witness ==
  /\ dispatched = <<>>
  /\ Len(messageQueue) > 0
  /\ sessionId # NoSession
  /\ Len(cache[sessionId]) > 0
  /\ Last(cache[sessionId]).id = Last(messageQueue).id
  /\ Last(cache[sessionId]).parts[1].text = <<"a">>

\* The request of loop k settles as a failure in this step.
FailedSettle(k) ==
  /\ loops[k].pc = "await"
  /\ loops'[k].pc = "tick"
  /\ server' = server

ErrorPending(us) ==
  \E i \in DOMAIN us : us[i].kind = "setSendError" /\ us[i].value # NoError

\* C4: when the dispatch of the queued message with id X fails, the message
\* list that holds its record has no record with id X afterwards, a send
\* error is set, and no record with another id is removed from any list.
C4_FailureCleanup ==
  [][\A k \in LoopIds :
       FailedSettle(k) =>
         LET m == loops[k].nextMessage
             home == submitted[m.n].sessionId
         IN /\ \A i \in DOMAIN cache'[home] : cache'[home][i].id # m.id
            /\ ErrorPending(updates')
            /\ \A s \in Sessions :
                 WithoutId(cache'[s], m.id) = WithoutId(cache[s], m.id)]_vars

InFlightNs == {r.n : r \in inflight}
Records == {<<s, i>> : s \in Sessions, i \in 1..MaxSubmits}
IsRecord(p) == p[2] \in DOMAIN cache[p[1]]
Rec(p) == cache[p[1]][p[2]]

\* C5: a failed dispatch does not end the drain: every message that is in
\* the queue when a failure has just been handled is dispatched afterwards
\* with no user action (the order is that of C1).
C5_DrainSurvivesFailure ==
  \A n \in 1..MaxSubmits :
    (ErrorPending(updates) /\ InQueue(n)) ~> Dispatched(n)

\* The first request failed, its error shows, and the second message, which
\* was queued behind it, has been dispatched.
C5_Witness ==
  /\ Len(submitted) = 2
  /\ Len(dispatched) = 2
  /\ \A s \in Sessions : server[s] = <<>>
  /\ sendError # NoError

\* C6: the record of a message that waits in the queue behind an earlier
\* message (queued or in flight) has isQueued = true, and the record of a
\* message whose prompt request has been issued has isQueued = false.
C6_QueuedFlagLifecycle ==
  \A p \in Records :
    (IsRecord(p) /\ Rec(p).n > 0) =>
      /\ (/\ InQueue(Rec(p).n)
          /\ \E a \in 1..MaxSubmits :
               a < Rec(p).n /\ (InQueue(a) \/ a \in InFlightNs))
           => Rec(p).isQueued
      /\ Rec(p).n \in InFlightNs => ~Rec(p).isQueued

\* C7: every record with isQueued = true has exactly one QueuedMessage with
\* its id in the queue.
C7_QueuedRecordInQueue ==
  \A p \in Records :
    (IsRecord(p) /\ Rec(p).isQueued) =>
      Cardinality({j \in DOMAIN messageQueue :
                     messageQueue[j].id = Rec(p).id}) = 1

\* C8 as first stated: the new record is queued exactly when the queue holds
\* a message or a prompt request is in flight.
C8_QueuedIffQueuedOrInFlight ==
  [][AcceptedSubmit =>
       Last(cache'[sessionId]).isQueued
         = (messageQueue # <<>> \/ inflight # {})]_vars

\* C8, amended: the new record is queued exactly when the rendered queue
\* holds a message or the rendered sending flag is set; it is queued
\* whenever the queue holds a message or a request is in flight; and a
\* submit with an empty queue and sending unset creates it not queued.
C8_QueuedIffSendingOrQueued ==
  [][AcceptedSubmit =>
       LET queued == Last(cache'[sessionId]).isQueued
       IN /\ queued = (sending \/ messageQueue # <<>>)
          /\ (messageQueue # <<>> \/ inflight # {}) => queued
          /\ (messageQueue = <<>> /\ ~sending) => ~queued]_vars

\* A record created queued while the queue was empty and nothing was in
\* flight: it waits in the queue, and no request has been issued since the
\* one before it settled.
C8_Witness ==
  /\ Len(submitted) = 2
  /\ Len(dispatched) = 1
  /\ inflight = {}
  /\ \E p \in Records : IsRecord(p) /\ Rec(p).n = 2 /\ Rec(p).isQueued

\* C9: no accepted message is left in the queue with no drain running and
\* nothing enqueued that would start one.
C9_NoStrandedMessage ==
  messageQueue # <<>> => (isProcessingQueue \/ updates # <<>>)

\* C10: the drain ends: with the queue empty, nothing popped and no request
\* unresolved, isProcessingQueue and sending become false; a submit made
\* with isProcessingQueue false starts a drain for the rendered session, and
\* a message in the queue of a drain about to pop is dispatched.
C10_DrainTerminates ==
  /\ (/\ messageQueue = <<>>
      /\ inflight = {}
      /\ \A k \in LoopIds : loops[k].nextMessage = NoMsg)
       ~> (~isProcessingQueue /\ ~sending)
  /\ [][(AcceptedSubmit /\ ~isProcessingQueue) =>
          /\ isProcessingQueue'
          /\ \E k \in LoopIds :
               /\ loops'[k].pc = "tick"
               /\ loops'[k].sessionId = sessionId
               /\ updates' = <<SetSending(TRUE), PopHead(k)>>]_vars
  /\ \A n \in 1..MaxSubmits : (InQueue(n) /\ PopPending) ~> Dispatched(n)

\* A drain has ended, with both flags false again, and a later submit has
\* started a second drain that dispatched its message.
C10_Witness ==
  /\ Len(dispatched) = 2
  /\ ~isProcessingQueue
  /\ ~sending
  /\ messageQueue = <<>>
  /\ \E s \in Sessions : Len(server[s]) = 2

\* C11: every accepted submit produces at most one prompt request: no two
\* requests are for the same submit, a message is in the queue at most once,
\* and a message that was popped or dispatched is not in the queue again,
\* whether its request succeeded or failed.
C11_AtMostOneRequest ==
  /\ \A i, j \in DOMAIN dispatched :
       dispatched[i].n = dispatched[j].n => i = j
  /\ Len(dispatched) <= Len(submitted)
  /\ \A n \in 1..MaxSubmits :
       /\ Cardinality({j \in DOMAIN messageQueue : messageQueue[j].n = n}) <= 1
       /\ (Dispatched(n) \/ \E k \in LoopIds : loops[k].nextMessage.n = n)
            => ~InQueue(n)

\* The only request failed, the error shows, the drain has ended and the
\* queue is empty: the failed message was not sent again.
C11_Witness ==
  /\ Len(submitted) = 1
  /\ Len(dispatched) = 1
  /\ sendError # NoError
  /\ \A s \in Sessions : server[s] = <<>>
  /\ Running = {}
  /\ updates = <<>>
  /\ messageQueue = <<>>

\* C12: a submit with an input that is empty after trimming, or with no
\* session selected, does nothing: while that is the case no step accepts a
\* submit, appends to the queue or clears the send error, and no prompt
\* request ever carries an empty text or goes to no session.
C12_RejectedSubmitIsNoOp ==
  /\ [][(Trim(input) = <<>> \/ sessionId = NoSession) =>
          /\ submitted' = submitted
          /\ Len(messageQueue') <= Len(messageQueue)
          /\ (sendError' # sendError => sendError' # NoError)]_vars
  /\ [](\A i \in DOMAIN dispatched :
          /\ dispatched[i].text # <<>>
          /\ dispatched[i].sessionId \in Sessions)
  /\ [](\A i \in DOMAIN submitted :
          /\ submitted[i].text # <<>>
          /\ submitted[i].sessionId \in Sessions)

\* The input holds white space only while a send error shows and no drain
\* runs: a submit now would be rejected and the error would stay.
C12_Witness ==
  /\ input = <<" ">>
  /\ sessionId # NoSession
  /\ sendError # NoError
  /\ Running = {}
  /\ updates = <<>>

\* C13: when the selected session changes, the queue is empty right after
\* the switch and sending is not left set by the previous session's drain.
C13_QueueResetOnSwitch ==
  [][(sessionId # NoSession /\ sessionId' # sessionId) =>
       /\ messageQueue' = <<>>
       /\ ~sending']_vars

NewErrors(us) ==
  Cardinality({i \in DOMAIN us :
                 us[i].kind = "setSendError" /\ us[i].value # NoError})

\* C14: a dispatch failure for a prompt sent to a session other than the one
\* now selected sets no send error for the page and leaves the message list
\* of the selected session as it is.
C14_ErrorScopedToSession ==
  [][\A k \in LoopIds :
       (FailedSettle(k) /\ loops[k].sessionId # sessionId) =>
         /\ NewErrors(updates') = NewErrors(updates)
         /\ cache'[sessionId] = cache[sessionId]]_vars

\* The request of loop k settles as a success in this step.
SucceededSettle(k) ==
  /\ loops[k].pc = "await"
  /\ loops'[k].pc = "tick"
  /\ server' # server

\* C15: the step in which a dispatch succeeds requests a refresh of the
\* message list of the session the prompt went to and re-arms isNearBottom,
\* both before the loop's next pop is applied; the step in which a dispatch
\* fails requests no refresh; and the loop does not dispatch again while a
\* pop it asked for is still to be applied.
C15_RefreshAfterSuccess ==
  [][\A k \in LoopIds :
       /\ SucceededSettle(k) =>
            /\ loops[k].sessionId \in refetch'
            /\ isNearBottomRef'
            /\ Last(updates') = PopHead(k)
            /\ messageQueue' = messageQueue
       /\ FailedSettle(k) => refetch' = refetch
       /\ (loops[k].pc = "tick" /\ loops'[k].pc = "await") => ~PopPending]_vars

\* A dispatch has just succeeded: the refresh of its session is pending, the
\* flag is armed and the next message still waits in the queue for the pop.
C15_Witness ==
  /\ Len(dispatched) = 1
  /\ \E s \in Sessions : s \in refetch /\ Len(server[s]) = 1
  /\ isNearBottomRef
  /\ Len(messageQueue) = 1
  /\ PopPending

\* C16: no two QueuedMessages in the queue share an id, and no two
\* optimistic records that exist at the same time share an id.
C16_UniqueTempIds ==
  /\ \A i, j \in DOMAIN messageQueue :
       messageQueue[i].id = messageQueue[j].id => i = j
  /\ \A p, q \in Records :
       (/\ IsRecord(p) /\ IsRecord(q)
        /\ Rec(p).n > 0 /\ Rec(q).n > 0
        /\ Rec(p).id = Rec(q).id) => p = q

HasNonBlankText(m) ==
  \E i \in DOMAIN m.parts :
    /\ m.parts[i].type = "text"
    /\ m.parts[i].hasText
    /\ \E j \in DOMAIN m.parts[i].text : m.parts[i].text[j] \notin Space
HasPart(m, type) == \E i \in DOMAIN m.parts : m.parts[i].type = type
IsShown(m) == \E i \in DOMAIN shown : shown[i] = m
ToolInvocationType == IF page = QueuePage THEN "tool" ELSE "tool-invocation"

\* C17 as first stated: a message is rendered exactly when it has a text
\* fragment that is not blank or a tool-invocation fragment.
C17_VisibleIffTextOrToolCall ==
  \A i \in DOMAIN messages :
    IsShown(messages[i])
      <=> (HasNonBlankText(messages[i]) \/ HasPart(messages[i], ToolInvocationType))

\* C17, amended: a message is rendered exactly when it has a text fragment
\* that is not blank or a tool-invocation fragment or, on the page
\* pages/session/[id].tsx, a tool-result fragment; a message with none of
\* these is not rendered.
C17_VisibleIffTextOrTool ==
  \A i \in DOMAIN messages :
    IsShown(messages[i])
      <=> \/ HasNonBlankText(messages[i])
          \/ HasPart(messages[i], ToolInvocationType)
          \/ page = IdPage /\ HasPart(messages[i], "tool-result")

\* On pages/session/[id].tsx, of two messages the first has blank text only
\* and is left out, the second has a tool result only and is rendered.
C17_Witness ==
  /\ page = IdPage
  /\ Len(messages) = 2
  /\ messages[1].parts = <<[type |-> "text", hasText |-> TRUE, text |-> <<" ">>]>>
  /\ messages[2].parts = <<NoText("tool-result")>>
  /\ shown = <<messages[2]>>

\* C18: filtering the rendered list again changes nothing, every rendered
\* message is one of the list, and the rendered messages are in the order
\* they have in the list.
C18_FilterIdempotentInOrder ==
  /\ renderedMessages(shown, page) = shown
  /\ \A i \in DOMAIN shown : \E j \in DOMAIN messages : shown[i] = messages[j]
  /\ \A i, j \in DOMAIN shown :
       i < j => shown[i].info.id < shown[j].info.id

\* Two messages are rendered, in the order of the list, and a message of
\* the list is left out.
C18_Witness ==
  /\ Len(shown) = 2
  /\ Len(messages) > Len(shown)
  /\ shown[1].info.id < shown[2].info.id

\* The mention of text t with the cursor at offset c is active, taking the
\* characters of blank as the ones that end a mention: the nearest "@"
\* before the cursor is t[i], it starts the text or follows a blank, and no
\* blank is between it and the cursor.
NearestAt(t, c, i) ==
  /\ i \in 1..c
  /\ t[i] = "@"
  /\ \A j \in (i + 1)..c : t[j] # "@"
ActiveAt(t, c, blank) ==
  \E i \in 1..c :
    /\ NearestAt(t, c, i)
    /\ (i = 1 \/ t[i - 1] \in blank)
    /\ \A j \in (i + 1)..c : t[j] \notin blank
ParsedAs(blank) ==
  called = "handleInputChange" =>
    /\ isOpen <=> ActiveAt(input, cursor, blank)
    /\ isOpen =>
         \E i \in 1..cursor :
           /\ NearestAt(input, cursor, i)
           /\ mentionStart = i - 1
           /\ searchQuery = [j \in 1..(cursor - i) |-> input[i + j]]
    /\ ~isOpen =>
         (searchQuery = <<>> /\ mentionStart = Null /\ selectedIndex = 0)

\* C19 as first stated, white space being the space, the tab and the
\* newline: after handleInputChange(value, cursor) the mention is active
\* exactly when the nearest "@" before the cursor starts the text or follows
\* white space and no white space is between it and the cursor.
C19_MentionParsedOnWhiteSpace == ParsedAs({" ", "\n", "\t"})

\* C19, amended: the same with the space character and the newline alone as
\* the characters that may precede "@" and that end a mention; when active
\* the query is the text between "@" and the cursor and mentionStart is the
\* offset of "@"; when not active the mention state is the closed one.
C19_MentionParsedOnSpaceOrNewline == ParsedAs({" ", "\n"})

\* The text " @a" with the cursor at its end: active, query "a", anchor 1.
C19_Witness ==
  /\ called = "handleInputChange"
  /\ input = <<" ", "@", "a">>
  /\ cursor = 3
  /\ isOpen
  /\ searchQuery = <<"a">>
  /\ mentionStart = 1

\* C20: a selection made with an active mention at anchor a and a query of
\* length q sets the text to text[0..a) + "@" + path + " " + text[a+1+q..),
\* for the path chosen; handleSelect with mentionStart null returns the text
\* as it is.
C20_SelectionSplice ==
  /\ [][(isOpen /\ called' = "handleSelect") =>
          LET a == mentionStart
              q == Len(searchQuery)
              rest == Len(input) - (a + 1 + q)
          IN /\ rest >= 0
             /\ \E path \in Paths :
                  /\ \E i \in DOMAIN files : files[i] = path
                  /\ Len(input') = a + 1 + Len(path) + 1 + rest
                  /\ \A i \in 1..a : input'[i] = input[i]
                  /\ input'[a + 1] = "@"
                  /\ \A i \in 1..Len(path) : input'[a + 1 + i] = path[i]
                  /\ input'[a + 1 + Len(path) + 1] = " "
                  /\ \A i \in 1..rest :
                       input'[a + 1 + Len(path) + 1 + i] = input[a + 1 + q + i]]_vars
  /\ [](\A path \in Paths :
          handleSelect(path, input, Null, searchQuery) = input)

\* A selection was made in the middle of a text: the text before the "@"
\* and the text after the query are still there.
C20_Witness ==
  /\ called = "handleSelect"
  /\ ~isOpen
  /\ input = <<" ", "@", "d", "f", " ", "a">>

MentionState ==
  [isOpen |-> isOpen, searchQuery |-> searchQuery,
   mentionStart |-> mentionStart, selectedIndex |-> selectedIndex]

\* C22 (interception alone): handleKeyDown returns true for Enter and Tab
\* exactly when the popover is open with at least one candidate, an
\* intercepted key submits nothing, and a key that is not intercepted
\* changes neither the text nor the mention state, Enter submitting a text
\* that is not blank.
C22_InterceptedIffOpenWithCandidate ==
  [][lastKey'.key \in {"Enter", "Tab"} =>
       LET intercepted == isOpen /\ Len(files) > 0
       IN  /\ lastKey'.handled = intercepted
           /\ intercepted => ~lastKey'.submits
           /\ ~intercepted =>
                /\ input' = input
                /\ MentionState' = MentionState
                /\ lastKey'.submits =
                     (lastKey'.key = "Enter" /\ Trim(input) # <<>>)]_vars

\* C22: Enter and Tab are intercepted exactly when the popover is open with
\* at least one candidate; an intercepted key commits a selection (the text
\* becomes handleSelect of a candidate and the popover closes) and submits
\* nothing; a key that is not intercepted changes nothing and Enter submits
\* the form.
C22_EnterTabCommitOrFallThrough ==
  [][lastKey'.key \in {"Enter", "Tab"} =>
       LET intercepted == isOpen /\ Len(files) > 0
       IN  /\ lastKey'.handled = intercepted
           /\ intercepted =>
                /\ ~lastKey'.submits
                /\ ~isOpen'
                /\ \E i \in DOMAIN files :
                     input' = handleSelect(files[i], input, mentionStart,
                                           searchQuery)
           /\ ~intercepted =>
                /\ input' = input
                /\ MentionState' = MentionState
                /\ lastKey'.submits =
                     (lastKey'.key = "Enter" /\ Trim(input) # <<>>)]_vars

\* C23: Escape with the popover open is handled, closes the mention (isOpen
\* false, query empty, mentionStart null, selectedIndex 0) and leaves the
\* text as it is; with the popover closed handleKeyDown returns false for
\* every key and changes no mention state.
C23_EscapeCancels ==
  /\ [][(isOpen /\ lastKey'.key = "Escape") =>
          /\ lastKey'.handled
          /\ ~isOpen'
          /\ searchQuery' = <<>>
          /\ mentionStart' = Null
          /\ selectedIndex' = 0
          /\ input' = input]_vars
  /\ [][(~isOpen /\ lastKey'.key # "none") =>
          /\ ~lastKey'.handled
          /\ MentionState' = MentionState]_vars
  /\ [](~isOpen =>
          \A key \in Keys :
            handleKeyDown(key, Len(files)) =
              [state |-> MentionState, handled |-> FALSE])

\* Escape was pressed while a mention was being typed: the popover is
\* closed and the text still holds the mention.
C23_Witness ==
  /\ lastKey.key = "Escape"
  /\ lastKey.handled
  /\ ~isOpen
  /\ mentionStart = Null
  /\ input = <<"@", "a">>

\* C24 (what is applied): a pending timer and a request in flight are for
\* the current query, there is at most one of them, and a list that the
\* popover starts to show was returned for the query current at that time.
C24_AppliedResultsAreCurrent ==
  /\ [](timers \cup requests \subseteq {searchQuery})
  /\ [](Cardinality(timers) + Cardinality(requests) <= 1)
  /\ [](~isOpen => timers \cup requests = {} /\ files = <<>>)
  /\ [][(files' # <<>> /\ <<files, filesQuery>>' # <<files, filesQuery>>) =>
          filesQuery' = searchQuery']_vars

\* C24: the candidate list that the open popover shows was returned for the
\* current query, never for a superseded one.
C24_ShownListIsOfCurrentQuery ==
  (isOpen /\ files # <<>>) => filesQuery = searchQuery

\* The prompt requests unresolved for session s: those of the chat queue
\* and that of the toolbar.
UnresolvedFor(s) ==
  Cardinality({r \in inflight : loops[r.loop].sessionId = s})
    + (IF toolbarRequest.sessionId = s THEN 1 ELSE 0)

\* C25: counting the requests of the chat queue and of the toolbar, at most
\* one prompt request for a session is unresolved at any time.
C25_OneSubmissionPerSession ==
  \A s \in Sessions : UnresolvedFor(s) <= 1

\* C26: every prompt the upstream was called with is for the session of the
\* request and carries the text and the model that the client sent.
C26_UpstreamGetsTextAndModel ==
  \A s \in Sessions :
    \A i \in DOMAIN server[s] :
      LET call == server[s][i]
      IN  /\ call.path.id = s
          /\ \E j \in DOMAIN dispatched :
               /\ dispatched[j].sessionId = s
               /\ call.body.parts = <<[type |-> "text",
                                       text |-> dispatched[j].text]>>
               /\ "model" \in DOMAIN call.body
               /\ call.body.model = dispatched[j].model

\* C26 (session and text): every prompt the upstream was called with is for
\* the session of a request of the queue and carries its text.
C26_UpstreamGetsSessionAndText ==
  \A s \in Sessions :
    \A i \in DOMAIN server[s] :
      /\ server[s][i].path.id = s
      /\ \E j \in DOMAIN dispatched :
           /\ dispatched[j].sessionId = s
           /\ server[s][i].body.parts = <<[type |-> "text",
                                           text |-> dispatched[j].text]>>

\* C27: every request goes to the session in which its message was
\* submitted.
C27_DispatchedToSubmitSession ==
  \A i \in DOMAIN dispatched :
    dispatched[i].sessionId = submitted[dispatched[i].n].sessionId

\* C28: the optimistic record of a message that waits in the queue, or that
\* was popped and whose request has not settled, is in the message list of
\* the session in which it was submitted.
C28_QueuedRecordStaysVisible ==
  \A n \in DOMAIN submitted :
    (InQueue(n) \/ \E k \in LoopIds : loops[k].nextMessage.n = n) =>
      \E i \in DOMAIN cache[submitted[n].sessionId] :
        cache[submitted[n].sessionId][i].n = n

\* C29: while the popover is open with n > 0 candidates, selectedIndex is
\* in 0..n-1.
C29_SelectedIndexInRange ==
  (isOpen /\ Len(files) > 0) => selectedIndex \in 0..(Len(files) - 1)

\* C30: a selection leaves the mention closed, and for every path that can
\* be chosen, parsing the text that handleSelect returns with the cursor
\* just after the inserted "@<path> " (offset anchor + 1 + |path| + 1)
\* gives no active mention.
C30_CommitEndsMention ==
  /\ [][(isOpen /\ called' = "handleSelect") =>
          /\ MentionState' = closed
          /\ \E i \in DOMAIN files :
               /\ input' = handleSelect(files[i], input, mentionStart,
                                        searchQuery)
               /\ handleInputChange(input',
                                    mentionStart + 1 + Len(files[i]) + 1)
                    = closed]_vars
  /\ [](isOpen =>
          \A path \in Paths :
            handleInputChange(
              handleSelect(path, input, mentionStart, searchQuery),
              mentionStart + 1 + Len(path) + 1) = closed)

\* A path that holds an "@" was chosen for the mention "@a": the text is
\* "@@f " and the popover is closed.
C30_Witness ==
  /\ called = "handleSelect"
  /\ ~isOpen
  /\ mentionStart = Null
  /\ input = <<"@", "@", "f", " ">>

====
